---- MODULE Spec2Model ----
(***************************************************************************)
(* Waitlist application: the Waitlist Enrollment Endpoint (/api/notion),   *)
(* the Mail Dispatch Endpoint (/api/mail) and the two-step Waitlist Form.  *)
(*                                                                         *)
(* Strings are sequences of one-character strings, so that split("@") and  *)
(* the email regular expression are computed and not assumed.              *)
(***************************************************************************)
EXTENDS Integers, Sequences, FiniteSets, TLC

VARIABLES
    store,      \* the Notion database: the sequence of created pages
    nreq,       \* requests to POST /api/notion, in order of posting
    overlap,    \* history: some /api/notion request was posted while another was in flight
    faulted,    \* history: some Notion call threw
    mreq,       \* requests to POST /api/mail, in order of posting
    hits,       \* the rate limiter's counter store: per key, the times of the requests it let through
    outbox,     \* the emails the provider accepted
    now,        \* wall clock, in seconds
    form,       \* the React state of WaitlistForm plus the position of its handleSubmit
    refCode,    \* the ?ref= query parameter of the page the form is on
    gen         \* the last call of generateCode made outside the endpoint, and its result

vars == <<store, nreq, overlap, faulted, mreq, hits, outbox, now, form, refCode, gen>>

notionVars == <<store, nreq, overlap, faulted>>
mailVars == <<mreq, hits, outbox>>
formVars == <<form, refCode>>

----------------------------------------------------------------------------
\* Bounds of the model

MaxReq == 2         \* /api/notion requests in one behaviour
MaxMailReq == 3     \* /api/mail requests in one behaviour
MaxTime == 90       \* the clock stops here
TickLen == 30       \* seconds the clock advances in one step
MaxAttempts == 2    \* step-2 submissions of the form in one behaviour
MaxCodeLen == 2     \* the longest code asked of generateCode with every draw enumerated

----------------------------------------------------------------------------
\* JavaScript values

\* undefined (an absent JSON field); no string of the model has a
\* several-letter element, so it differs from every string
Undefined == <<"undefined">>

Truthy(v) == v # Undefined /\ v # <<>>

\* the email test comparing with undefined alone
EmailMissing_UndefinedOnly(body) == body.email = Undefined

\* !email
EmailMissing(body) == ~Truthy(body.email)

\* String.prototype.split(sep)[0]: the part before the first sep, the whole
\* string when sep does not occur
SplitFirst(s, sep) ==
    IF \E i \in 1..Len(s) : s[i] = sep
    THEN LET i == CHOOSE k \in 1..Len(s) :
                      s[k] = sep /\ \A j \in 1..(k - 1) : s[j] # sep
         IN  SubSeq(s, 1, i - 1)
    ELSE s

EmailA == <<"a", "@", "b", ".", "c", "o", "m">>
EmailB == <<"c", "@", "d", ".", "i", "o">>
NameN == <<"N", "e", "d">>

----------------------------------------------------------------------------
\* Referral codes

REFERRAL_CODE_CHARSET ==
    << "A", "B", "C", "D", "E", "F", "G", "H", "J", "K", "L", "M", "N", "P", "Q", "R",
       "S", "T", "U", "V", "W", "X", "Y", "Z", "2", "3", "4", "5", "6", "7", "8", "9" >>

DefaultCodeLength == 8

\* a loop that starts at 1
generateCode_FromOne(length, rnd) ==
    [i \in 1..(IF length > 0 THEN length - 1 ELSE 0) |-> REFERRAL_CODE_CHARSET[rnd[i] + 1]]

\* generateCode(length), rnd[i] being the i-th value of
\* Math.floor(Math.random() * charsetLength)
generateCode(length, rnd) ==
    [i \in 1..length |-> REFERRAL_CODE_CHARSET[rnd[i] + 1]]

\* The random draws the model enumerates: every draw the lowest index, or
\* every draw the highest
RandomDraws(length) ==
    { [i \in 1..length |-> k] : k \in {0, Len(REFERRAL_CODE_CHARSET) - 1} }

\* every value Math.floor(Math.random() * charsetLength) takes, at each of
\* `length` draws
AllDraws(length) == [1..length -> 0..(Len(REFERRAL_CODE_CHARSET) - 1)]

\* no call of generateCode made yet
NoCall == [called |-> FALSE, given |-> FALSE, length |-> 0, code |-> <<>>]

\* generateCode() or generateCode(length), called on its own, once in a
\* behaviour: with the default length the draws are RandomDraws, else every
\* draw is enumerated
Generate ==
    /\ ~gen.called
    /\ \E given \in BOOLEAN, length \in 0..MaxCodeLen :
          /\ ~given => length = 0
          /\ LET n == IF given THEN length ELSE DefaultCodeLength IN
              \E rnd \in (IF given THEN AllDraws(n) ELSE RandomDraws(n)) :
                  gen' = [called |-> TRUE, given |-> given, length |-> length,
                          code |-> generateCode(n, rnd)]
    /\ UNCHANGED <<notionVars, mailVars, now, formVars>>

CodeA == generateCode(DefaultCodeLength, [i \in 1..DefaultCodeLength |-> 0])
BogusCode == <<"Z", "Z">>

----------------------------------------------------------------------------
\* Request bodies

Body(email, firstname, name, referredBy) ==
    [email |-> email, firstname |-> firstname, name |-> name, referredBy |-> referredBy]

\* what a client other than the form may post to /api/notion: no email, an
\* empty email, and the two addresses with and without a name and a referrer
ClientNotionBodies ==
    { Body(Undefined, NameN, Undefined, CodeA),
      Body(<<>>, Undefined, Undefined, Undefined),
      Body(EmailA, Undefined, Undefined, Undefined),
      Body(EmailA, NameN, Undefined, CodeA),
      Body(EmailA, Undefined, Undefined, BogusCode),
      Body(EmailB, Undefined, Undefined, CodeA),
      Body(EmailB, NameN, Undefined, Undefined) }

InFlight(q) == q.pc \notin {"done", "lost"}

----------------------------------------------------------------------------
\* The Notion database

\* the Email query filtering on the Name property
QueryByEmail_WrongProperty(email) == SelectSeq(store, LAMBDA p : p.name = email)

\* notion.databases.query with an Email filter
QueryByEmail(email) == SelectSeq(store, LAMBDA p : p.email = email)

\* notion.databases.query with a Referral Code filter
QueryByCode(code) == SelectSeq(store, LAMBDA p : p.code = code)

\* notion.pages.create: the page gets a fresh id
\* a page named after the email whatever firstname is
NewPage_NameFromEmail(r, q) ==
    [ id         |-> Len(store) + 1,
      name       |-> SplitFirst(q.body.email, "@"),
      email      |-> q.body.email,
      code       |-> q.code,
      referredBy |-> IF Truthy(q.body.referredBy) THEN q.body.referredBy ELSE <<>>,
      referrer   |-> IF q.referrerPageId # 0 THEN <<q.referrerPageId>> ELSE <<>>,
      by         |-> r ]

NewPage(r, q) ==
    [ id         |-> Len(store) + 1,
      name       |-> IF Truthy(q.body.firstname) THEN q.body.firstname
                     ELSE SplitFirst(q.body.email, "@"),
      email      |-> q.body.email,
      code       |-> q.code,
      referredBy |-> IF Truthy(q.body.referredBy) THEN q.body.referredBy ELSE <<>>,
      referrer   |-> IF q.referrerPageId # 0 THEN <<q.referrerPageId>> ELSE <<>>,
      by         |-> r ]

----------------------------------------------------------------------------
\* POST /api/notion

NoResp == [code |-> <<>>, notionId |-> 0, details |-> FALSE]

NewNotionReq(body, src) ==
    [ pc |-> "new", body |-> body, src |-> src, code |-> <<>>, referrerPageId |-> 0,
      status |-> 0, resp |-> NoResp,
      nEmailQuery |-> 0, nCodeQuery |-> 0, nCreate |-> 0,
      sawLen |-> 0, lookLen |-> 0, lookup |-> "none", threw |-> "none" ]

PostNotion(body, src) ==
    /\ Len(nreq) < MaxReq
    /\ nreq' = Append(nreq, NewNotionReq(body, src))
    /\ overlap' = (overlap \/ \E r \in 1..Len(nreq) : InFlight(nreq[r]))

Respond(q, status, resp) == [q EXCEPT !.pc = "done", !.status = status, !.resp = resp]

\* the catch of the handler answering as if nothing had failed
Respond500_Swallowed(q, at) == [Respond(q, 200, NoResp) EXCEPT !.threw = at]

\* the catch of the handler
Respond500(q, at) ==
    [Respond(q, 500, [NoResp EXCEPT !.details = TRUE]) EXCEPT !.threw = at]

\* the duplicate check, refusing only from the second match on
IsDuplicate_OffByOne(results) == Len(results) > 1

\* the duplicate check on the result of the Email query
IsDuplicate(results) == Len(results) > 0

\* the handler up to the first Notion call and through the code that follows
\* it: the body's email is required, the Email query is made, a duplicate is
\* refused, and the referral code is generated
NotionCheck(r) ==
    /\ nreq[r].pc = "new"
    /\ LET q == nreq[r] IN
        \/ /\ EmailMissing(q.body)
           /\ nreq' = [nreq EXCEPT ![r] = Respond(q, 400, NoResp)]
           /\ UNCHANGED faulted
        \/ /\ ~EmailMissing(q.body)
           /\ LET asked == [q EXCEPT !.nEmailQuery = @ + 1, !.sawLen = Len(store)] IN
               \/ \* the query throws, or answers without a results list
                  /\ nreq' = [nreq EXCEPT ![r] = Respond500(asked, "check")]
                  /\ faulted' = TRUE
               \/ /\ IsDuplicate(QueryByEmail(q.body.email))
                  /\ nreq' = [nreq EXCEPT ![r] = Respond(asked, 409, NoResp)]
                  /\ UNCHANGED faulted
               \/ /\ ~IsDuplicate(QueryByEmail(q.body.email))
                  /\ \E rnd \in RandomDraws(DefaultCodeLength) :
                        nreq' = [nreq EXCEPT ![r] =
                                   [asked EXCEPT
                                      !.code = generateCode(DefaultCodeLength, rnd),
                                      !.pc = IF Truthy(q.body.referredBy)
                                             THEN "lookup" ELSE "create"]]
                  /\ UNCHANGED faulted
    /\ UNCHANGED <<store, overlap>>

\* the referrer lookup without a try/catch of its own: the handler's catch answers
NotionLookup_NoCatch(r) ==
    /\ nreq[r].pc = "lookup"
    /\ LET q == [nreq[r] EXCEPT !.nCodeQuery = @ + 1, !.lookLen = Len(store),
                                !.pc = "create"]
           results == QueryByCode(q.body.referredBy)
       IN
        \/ /\ nreq' = [nreq EXCEPT ![r] = Respond500([q EXCEPT !.lookup = "threw"], "lookup")]
           /\ faulted' = TRUE
        \/ /\ Len(results) > 0
           /\ nreq' = [nreq EXCEPT ![r] =
                         [q EXCEPT !.referrerPageId = results[1].id, !.lookup = "found"]]
           /\ UNCHANGED faulted
        \/ /\ Len(results) = 0
           /\ nreq' = [nreq EXCEPT ![r] = [q EXCEPT !.lookup = "notfound"]]
           /\ UNCHANGED faulted
    /\ UNCHANGED <<store, overlap>>

\* the referrer lookup: its own try/catch swallows a failure
NotionLookup(r) ==
    /\ nreq[r].pc = "lookup"
    /\ LET q == [nreq[r] EXCEPT !.nCodeQuery = @ + 1, !.lookLen = Len(store),
                                !.pc = "create"]
           results == QueryByCode(q.body.referredBy)
       IN
        \/ /\ nreq' = [nreq EXCEPT ![r] = [q EXCEPT !.lookup = "threw"]]
           /\ faulted' = TRUE
        \/ /\ Len(results) > 0
           /\ nreq' = [nreq EXCEPT ![r] =
                         [q EXCEPT !.referrerPageId = results[1].id, !.lookup = "found"]]
           /\ UNCHANGED faulted
        \/ /\ Len(results) = 0
           /\ nreq' = [nreq EXCEPT ![r] = [q EXCEPT !.lookup = "notfound"]]
           /\ UNCHANGED faulted
    /\ UNCHANGED <<store, overlap>>

\* notion.pages.create and the 200 response
NotionCreate(r) ==
    /\ nreq[r].pc = "create"
    /\ LET q == [nreq[r] EXCEPT !.nCreate = @ + 1] IN
        \/ /\ nreq' = [nreq EXCEPT ![r] = Respond500(q, "create")]
           /\ faulted' = TRUE
           /\ UNCHANGED store
        \/ /\ store' = Append(store, NewPage(r, q))
           /\ nreq' = [nreq EXCEPT ![r] =
                         Respond(q, 200, [code |-> q.code, notionId |-> Len(store) + 1,
                                          details |-> FALSE])]
           /\ UNCHANGED faulted
    /\ UNCHANGED overlap

NotionStep ==
    \E r \in 1..Len(nreq) : NotionCheck(r) \/ NotionLookup(r) \/ NotionCreate(r)

\* a client other than the form posts to /api/notion
ClientNotionPost ==
    /\ \E b \in ClientNotionBodies : PostNotion(b, "client")
    /\ UNCHANGED <<store, faulted>>

----------------------------------------------------------------------------
\* The rate limiter: Ratelimit.slidingWindow(2, "1 m")

RateLimit == 2
Window == 60

IpA == "203.0.113.7"
IpB == "198.51.100.9"
Loopback == "127.0.0.1"
Proxy == "10.0.0.1"
Callers == {IpA, IpB, Loopback}

\* the headers a caller's request arrives with: x-forwarded-for as the list
\* of its comma-separated, trimmed entries
HeadersOf(caller) ==
    IF caller = IpA THEN [xff |-> <<IpA, Proxy>>, xri |-> Undefined]
    ELSE IF caller = IpB THEN [xff |-> Undefined, xri |-> <<IpB>>]
    ELSE [xff |-> Undefined, xri |-> Undefined]

\* one key for every caller
ClientIp_OneKey(h) == Loopback

\* the key the handler hands to the limiter
ClientIp(h) ==
    IF Truthy(h.xff) THEN h.xff[1]
    ELSE IF h.xri # Undefined THEN h.xri[1]
    ELSE Loopback

\* the times in the key's counter that the rolling window still holds
Recent(key) == SelectSeq(hits[key], LAMBDA t : now - t < Window)

\* ratelimit.limit(key).success
LimitAllows(key) == Len(Recent(key)) < RateLimit

----------------------------------------------------------------------------
\* POST /api/mail

\* what clients other than the form post to /api/mail, and from where
ClientMailPosts ==
    { <<IpA, Body(EmailA, Undefined, NameN, Undefined)>>,
      <<IpA, Body(Undefined, Undefined, NameN, Undefined)>>,
      <<IpB, Body(EmailB, Undefined, Undefined, Undefined)>>,
      <<Loopback, Body(EmailA, Undefined, NameN, Undefined)>> }

NewMailReq(caller, body, src) ==
    [ pc |-> "new", caller |-> caller, headers |-> HeadersOf(caller), body |-> body,
      src |-> src, status |-> 0, limited |-> "none", at |-> 0, ord |-> 0,
      nLimit |-> 0, nSend |-> 0, provider |-> "none" ]

PostMail(caller, body, src) ==
    /\ Len(mreq) < MaxMailReq
    /\ mreq' = Append(mreq, NewMailReq(caller, body, src))

\* how many requests have consulted the limiter
Consults == Cardinality({p \in 1..Len(mreq) : mreq[p].nLimit > 0})

MailRespond(q, status) == [q EXCEPT !.pc = "done", !.status = status]

\* the provider's answers to resend.emails.send
ProviderAnswers == {"data", "error", "empty", "threw"}

\* a handler without the test of data
Delivered_NoDataTest(answer) == answer \in {"data", "empty"}

\* the provider's answer carries no error and carries data
Delivered(answer) == answer = "data"

\* The handler. Its three awaits (the limiter, the body, the provider) touch
\* disjoint state, so the handler is one step: the caller's IP is read, the
\* limiter consulted, the body parsed and its email required, the provider
\* called once and its answer turned into the response.
MailHandle(r, limiterUp, answer) ==
    /\ mreq[r].pc = "new"
    /\ LET ip == ClientIp(mreq[r].headers)
           q == [mreq[r] EXCEPT !.nLimit = @ + 1, !.at = now, !.ord = Consults + 1]
       IN
        IF ~limiterUp
        THEN /\ mreq' = [mreq EXCEPT ![r] = MailRespond([q EXCEPT !.limited = "threw"], 500)]
             /\ UNCHANGED <<hits, outbox>>
        ELSE IF ~LimitAllows(ip)
        THEN /\ mreq' = [mreq EXCEPT ![r] = MailRespond([q EXCEPT !.limited = "deny"], 429)]
             /\ UNCHANGED <<hits, outbox>>
        ELSE /\ hits' = [hits EXCEPT ![ip] = Append(Recent(ip), now)]
             /\ IF EmailMissing(q.body)
                THEN /\ mreq' = [mreq EXCEPT ![r] =
                                   MailRespond([q EXCEPT !.limited = "allow"], 400)]
                     /\ UNCHANGED outbox
                ELSE LET s == [q EXCEPT !.limited = "allow", !.nSend = @ + 1,
                                        !.provider = answer]
                     IN  IF Delivered(answer)
                         THEN /\ mreq' = [mreq EXCEPT ![r] = MailRespond(s, 200)]
                              /\ outbox' = Append(outbox,
                                               [to |-> s.body.email,
                                                userFirstname |-> s.body.name, by |-> r])
                         ELSE /\ mreq' = [mreq EXCEPT ![r] = MailRespond(s, 500)]
                              /\ UNCHANGED outbox

MailStepWith(limiterStates, answers) ==
    \E r \in 1..Len(mreq), limiterUp \in limiterStates, answer \in answers :
        MailHandle(r, limiterUp, answer)

MailStep == MailStepWith(BOOLEAN, ProviderAnswers)

\* a client other than the form posts to /api/mail; the handler being one
\* step, requests that wait together add no behaviour, and one waits at a time
ClientMailPost ==
    /\ \A p \in 1..Len(mreq) : ~InFlight(mreq[p])
    /\ \E p \in ClientMailPosts : PostMail(p[1], p[2], "client")
    /\ UNCHANGED <<hits, outbox>>

Tick ==
    /\ now + TickLen <= MaxTime
    /\ now' = now + TickLen

----------------------------------------------------------------------------
\* The Waitlist Form (client)

\* what the user may type into the email field: nothing, an address without
\* a top-level domain, and two addresses of the local@domain.tld shape
NoTld == <<"a", "@", "b">>
EmailInputs == {<<>>, NoTld, EmailA, EmailB}
NameInputs == {<<>>, NameN}
RefCodes == {Undefined, CodeA}

Origin == <<"o", "r", "i", "g", "i", "n">>
RefQuery == <<"/", "?", "r", "e", "f", "=">>

\* the caller IP the form's requests arrive with
FormIp == IpA

\* [^\s@]
NotSpaceOrAt(c) == c \notin {" ", "@"}

\* the pattern without its top-level domain part: /^[^\s@]+@[^\s@]+$/
isValidEmail_NoTld(email) ==
    \E i \in 1..Len(email) :
        /\ email[i] = "@"
        /\ 1 < i /\ i < Len(email)
        /\ \A k \in (1..Len(email)) \ {i} : NotSpaceOrAt(email[k])

\* /^[^\s@]+@[^\s@]+\.[^\s@]+$/.test(email)
isValidEmail(email) ==
    \E i \in 1..Len(email), j \in 1..Len(email) :
        /\ email[i] = "@"
        /\ email[j] = "."
        /\ 1 < i /\ i + 1 < j /\ j < Len(email)
        /\ \A k \in (1..Len(email)) \ {i} : NotSpaceOrAt(email[k])

\* a response taken as ok whatever its status
ResponseOk_Always(status) == TRUE

\* Response.ok
ResponseOk(status) == status \in 200..299

NetworkError == -1

FormInit ==
    [ step |-> 1, email |-> <<>>, name |-> <<>>, loading |-> FALSE, success |-> FALSE,
      shareLink |-> <<>>, toast |-> "none", pc |-> "idle",
      payload |-> Body(Undefined, Undefined, Undefined, Undefined),
      attempts |-> <<>> ]

\* one step-2 submission attempt, as the form saw it: the requests it issued
\* (0: none) and what came back (0: nothing yet, NetworkError: fetch rejected)
NewAttempt(mailReq) ==
    [ mailReq |-> mailReq, mailSeen |-> 0, notionReq |-> 0, notionSeen |-> 0,
      settled |-> FALSE, ok |-> FALSE ]

Cur == form.attempts[Len(form.attempts)]

\* the controls left enabled while loading
CanSubmit_NotDisabled == ~form.success

\* the form is rendered when success is false, and every control of it is
\* disabled while loading
CanSubmit == ~form.success /\ ~form.loading

\* both fields rendered on step 2
FormType_EmailOnStep2 ==
    /\ CanSubmit
    /\ \/ \E v \in EmailInputs : form' = [form EXCEPT !.email = v]
       \/ /\ form.step = 2
          /\ \E v \in NameInputs : form' = [form EXCEPT !.name = v]
    /\ UNCHANGED <<notionVars, mailVars, now, refCode, gen>>

\* handleChange, from the field the current step renders
FormType ==
    /\ CanSubmit
    /\ \/ /\ form.step = 1
          /\ \E v \in EmailInputs : form' = [form EXCEPT !.email = v]
       \/ /\ form.step = 2
          /\ \E v \in NameInputs : form' = [form EXCEPT !.name = v]
    /\ UNCHANGED <<notionVars, mailVars, now, refCode, gen>>

\* the payload of both calls
Payload ==
    Body(form.email,
         IF Truthy(form.name) THEN form.name ELSE SplitFirst(form.email, "@"),
         Undefined,
         IF Truthy(refCode) THEN refCode ELSE Undefined)

\* a return that leaves the handler without clearing the flag
Finally_Skipped(f) == f

\* the finally block of handleSubmit
Finally(f) == [f EXCEPT !.loading = FALSE]

\* an attempt ends: the handler has returned or thrown
Settle(f, toast) ==
    [Finally(f) EXCEPT !.pc = "idle", !.toast = toast,
                       !.attempts[Len(f.attempts)].settled = TRUE]

\* the error thrown on a mail response that is not ok
MailError(status) == IF status = 429 THEN "Rate limited" ELSE "Email failed"

\* the error thrown on an enrollment response that is not ok and not 409
NotionError(status) == IF status = 429 THEN "Rate limited" ELSE "Notion failed"

\* a catch block with one message for every error
CatchToast_OneMessage(message) == "generic"

\* the catch block's message
CatchToast(message) == IF message = "Rate limited" THEN "rate" ELSE "generic"

\* handleSubmit, up to its first await
FormSubmit ==
    /\ CanSubmit
    /\ IF form.step = 1
       THEN /\ form' = IF ~Truthy(form.email) \/ ~isValidEmail(form.email)
                       THEN [form EXCEPT !.toast = "invalid"]
                       ELSE [form EXCEPT !.step = 2]
            /\ UNCHANGED <<mreq, nreq, overlap>>
       ELSE /\ Len(form.attempts) < MaxAttempts
            /\ Len(nreq) < MaxReq
            /\ PostMail(FormIp, Payload, "form")
            /\ form' = [form EXCEPT !.loading = TRUE, !.pc = "mail", !.payload = Payload,
                                    !.attempts = Append(@, NewAttempt(Len(mreq) + 1))]
            /\ UNCHANGED <<nreq, overlap>>
    /\ UNCHANGED <<store, faulted, hits, outbox, now, refCode, gen>>

\* handleSubmit resumes after fetch('/api/mail')
FormMailSettle ==
    /\ form.pc = "mail"
    /\ \/ \* fetch rejects: the request never reached the endpoint
          /\ mreq[Cur.mailReq].pc = "new"
          /\ mreq' = [mreq EXCEPT ![Cur.mailReq].pc = "lost"]
          /\ form' = Settle([form EXCEPT !.attempts[Len(form.attempts)].mailSeen = NetworkError],
                            CatchToast("Failed to fetch"))
          /\ UNCHANGED <<nreq, overlap>>
       \/ /\ mreq[Cur.mailReq].pc = "done"
          /\ UNCHANGED mreq
          /\ LET status == mreq[Cur.mailReq].status
                 f == [form EXCEPT !.attempts[Len(form.attempts)].mailSeen = status]
             IN  IF ~ResponseOk(status)
                 THEN /\ form' = Settle(f, CatchToast(MailError(status)))
                      /\ UNCHANGED <<nreq, overlap>>
                 ELSE /\ PostNotion(form.payload, "form")
                      /\ form' = [f EXCEPT !.pc = "notion",
                                           !.attempts[Len(form.attempts)].notionReq = Len(nreq) + 1]
    /\ UNCHANGED <<store, faulted, hits, outbox, now, refCode, gen>>

\* a link that carries the code as a path
ShareLink_NoQuery(code) == Origin \o <<"/">> \o code

\* `${window.location.origin}/?ref=${code}`
ShareLink(code) == Origin \o RefQuery \o code

\* handleSubmit resumes after fetch('/api/notion')
FormNotionSettle ==
    /\ form.pc = "notion"
    /\ \/ \* fetch rejects: the request never reached the endpoint
          /\ nreq[Cur.notionReq].pc = "new"
          /\ nreq' = [nreq EXCEPT ![Cur.notionReq].pc = "lost"]
          /\ form' = Settle([form EXCEPT !.attempts[Len(form.attempts)].notionSeen = NetworkError],
                            CatchToast("Failed to fetch"))
       \/ /\ nreq[Cur.notionReq].pc = "done"
          /\ UNCHANGED nreq
          /\ LET status == nreq[Cur.notionReq].status
                 f == [form EXCEPT !.attempts[Len(form.attempts)].notionSeen = status]
             IN  form' =
                    IF ~ResponseOk(status)
                    THEN IF status = 409
                         THEN Settle(f, "already")
                         ELSE Settle(f, CatchToast(NotionError(status)))
                    ELSE Settle([f EXCEPT
                                   !.shareLink = ShareLink(nreq[Cur.notionReq].resp.code),
                                   !.success = TRUE, !.email = <<>>, !.name = <<>>,
                                   !.attempts[Len(form.attempts)].ok = TRUE],
                                "joined")
    /\ UNCHANGED <<store, overlap, faulted, mailVars, now, refCode, gen>>

\* the back button of step 2
FormBack ==
    /\ CanSubmit
    /\ form.step = 2
    /\ form' = [form EXCEPT !.step = 1]
    /\ UNCHANGED <<notionVars, mailVars, now, refCode, gen>>

\* a reset that leaves the step as it is
resetForm_KeepsStep ==
    /\ form.success
    /\ form' = [form EXCEPT !.email = <<>>, !.name = <<>>,
                            !.success = FALSE, !.shareLink = <<>>]
    /\ UNCHANGED <<notionVars, mailVars, now, refCode, gen>>

\* resetForm, offered by the success view
resetForm ==
    /\ form.success
    /\ form' = [form EXCEPT !.step = 1, !.email = <<>>, !.name = <<>>,
                            !.success = FALSE, !.shareLink = <<>>]
    /\ UNCHANGED <<notionVars, mailVars, now, refCode, gen>>

----------------------------------------------------------------------------

InitCommon ==
    /\ store = <<>>
    /\ nreq = <<>>
    /\ overlap = FALSE
    /\ faulted = FALSE
    /\ mreq = <<>>
    /\ hits = [k \in Callers |-> <<>>]
    /\ outbox = <<>>
    /\ now = 0
    /\ form = FormInit

Init == InitCommon /\ refCode = Undefined /\ gen = NoCall

\* the page may have been opened through a referral link
InitForm ==
    /\ InitCommon!1 /\ InitCommon!2 /\ InitCommon!3 /\ InitCommon!4 /\ InitCommon!5
    /\ InitCommon!7 /\ InitCommon!8 /\ InitCommon!9
    /\ hits \in {[k \in Callers |-> <<>>], [k \in Callers |-> IF k = FormIp THEN <<0>> ELSE <<>>]}
    /\ refCode \in RefCodes
    /\ gen = NoCall

\* Clients other than the form call both endpoints; MaxReq bounds their
\* requests to the two endpoints together. A caller may have used its quota
\* of the minute before the behaviour starts.
InitApi ==
    /\ InitCommon!1 /\ InitCommon!2 /\ InitCommon!3 /\ InitCommon!4 /\ InitCommon!5
    /\ InitCommon!7 /\ InitCommon!8 /\ InitCommon!9
    /\ hits \in {[k \in Callers |-> <<>>],
                 [k \in Callers |-> IF k = IpA THEN <<0, 0>> ELSE <<>>]}
    /\ refCode = Undefined
    /\ gen = NoCall

ApiNotionPost ==
    /\ Len(nreq) + Len(mreq) < MaxReq
    /\ ClientNotionPost

ApiMailPost ==
    /\ Len(nreq) + Len(mreq) < MaxReq
    /\ ClientMailPost

NextApi ==
    \/ ApiNotionPost /\ UNCHANGED <<mailVars, now, formVars, gen>>
    \/ NotionStep /\ UNCHANGED <<mailVars, now, formVars, gen>>
    \/ ApiMailPost /\ UNCHANGED <<notionVars, now, formVars, gen>>
    \/ MailStep /\ UNCHANGED <<notionVars, now, formVars, gen>>

SpecApi == InitApi /\ [][NextApi]_vars

\* Clients other than the form call the Mail Dispatch Endpoint as time passes.
NextMail ==
    \/ ClientMailPost /\ UNCHANGED <<notionVars, now, formVars, gen>>
    \/ MailStep /\ UNCHANGED <<notionVars, now, formVars, gen>>
    \/ Tick /\ UNCHANGED <<notionVars, mailVars, formVars, gen>>

SpecMail == Init /\ [][NextMail]_vars

\* One user at the form, the two endpoints serving its calls.
FormProgress ==
    \/ FormMailSettle
    \/ FormNotionSettle
    \/ MailStepWith({TRUE}, {"data", "error"}) /\ UNCHANGED <<notionVars, now, formVars, gen>>
    \/ NotionStep /\ UNCHANGED <<mailVars, now, formVars, gen>>

NextForm ==
    \/ FormType
    \/ FormSubmit
    \/ FormBack
    \/ resetForm
    \/ FormProgress

SpecForm == InitForm /\ [][NextForm]_vars

\* every call the form makes settles: it is answered, or its fetch rejects
FairSpecForm == SpecForm /\ WF_vars(FormProgress)

\* generateCode called on its own, as a test of it does
NextCode == Generate

SpecCode == Init /\ [][NextCode]_vars

Next == NextApi \/ NextMail \/ NextForm \/ NextCode

Spec == InitForm /\ [][Next]_vars

----------------------------------------------------------------------------
\* Claims about the Waitlist Enrollment Endpoint

Done(q) == q.pc = "done"
NotionIds == 1..Len(nreq)
MailIds == 1..Len(mreq)
PagesBy(r) == {i \in 1..Len(store) : store[i].by = r}
MailsBy(r) == {i \in 1..Len(outbox) : outbox[i].by = r}

\* an earlier request enrolled the same email
EnrolledBefore(r) ==
    \E p \in 1..(r - 1) :
        /\ nreq[p].body.email = nreq[r].body.email
        /\ nreq[p].status = 200

\* C1: when the requests to the enrollment endpoint came one after the other
\* and no Notion call failed, a request for an email no earlier request
\* enrolled is answered 200 with a non-empty code and creates exactly one page,
\* a request for an email enrolled before is answered 409 and creates none,
\* and the database holds at most one page per email.
C1_SequentialEnrollsOnce ==
    (~overlap /\ ~faulted) =>
        /\ \A r \in NotionIds :
              (Done(nreq[r]) /\ Truthy(nreq[r].body.email)) =>
                  IF EnrolledBefore(r)
                  THEN nreq[r].status = 409 /\ PagesBy(r) = {}
                  ELSE /\ nreq[r].status = 200
                       /\ nreq[r].resp.code # <<>>
                       /\ Cardinality(PagesBy(r)) = 1
        /\ \A i, j \in 1..Len(store) : store[i].email = store[j].email => i = j

C1_Witness ==
    /\ ~overlap /\ ~faulted
    /\ \E r, p \in NotionIds :
          /\ p < r
          /\ nreq[p].body.email = nreq[r].body.email
          /\ nreq[p].status = 200
          /\ nreq[r].status = 409

\* C2: two pages with the same email exist only when the request that
\* created the later one made its duplicate check before the earlier page was
\* created, and then both requests were answered 200: the endpoint has
\* nothing that stops the second creation.
C2_DuplicatesByRace ==
    \A i, j \in 1..Len(store) :
        (i < j /\ store[i].email = store[j].email) =>
            /\ nreq[store[j].by].sawLen < i
            /\ nreq[store[i].by].status = 200
            /\ nreq[store[j].by].status = 200
            /\ store[i].by # store[j].by

C2_Witness ==
    \E i, j \in 1..Len(store) :
        /\ i < j
        /\ store[i].email = store[j].email
        /\ nreq[store[i].by].status = 200
        /\ nreq[store[j].by].status = 200

\* a page of the first n pages carries the referral code
CodeKnown(code, n) == \E i \in 1..n : store[i].code = code

\* C5: a page's referrer relation is a page that existed at the lookup and
\* carries the referredBy code whenever the lookup found one, and is empty
\* when there was no lookup, no match, or the lookup threw; the lookup finds a
\* page exactly when one carries the code; and a request whose lookup found
\* nothing or threw still creates its page and is answered 200, unless the
\* page creation itself fails.
C5_ReferrerSoftFailure ==
    /\ \A i \in 1..Len(store) :
          LET q == nreq[store[i].by] IN
            IF q.lookup = "found"
            THEN /\ Len(store[i].referrer) = 1
                 /\ store[i].referrer[1] \in 1..q.lookLen
                 /\ store[store[i].referrer[1]].code = q.body.referredBy
            ELSE store[i].referrer = <<>>
    /\ \A r \in NotionIds :
          LET q == nreq[r] IN
            /\ q.lookup = "found" => CodeKnown(q.body.referredBy, q.lookLen)
            /\ q.lookup = "notfound" => ~CodeKnown(q.body.referredBy, q.lookLen)
            /\ (q.lookup # "none") <=> (q.nCodeQuery = 1)
            /\ q.threw # "lookup"
            /\ (Done(q) /\ q.lookup \in {"notfound", "threw"}) =>
                  \/ q.status = 200 /\ Cardinality(PagesBy(r)) = 1
                  \/ q.status = 500 /\ q.threw = "create"

C5_Witness ==
    \E r, s, t \in NotionIds :
        /\ nreq[r].lookup = "found" /\ nreq[r].status = 200
        /\ \E i \in PagesBy(r) : store[i].referrer # <<>>
        /\ nreq[s].lookup \in {"threw", "notfound"} /\ nreq[s].status = 200

\* C6 as stated: a request in which any Notion call failed, the referrer
\* lookup included, is answered 500 with an error-detail payload, and each
\* Notion call is issued at most once.
C6_AnyFailureIs500 ==
    \A r \in NotionIds :
        LET q == nreq[r] IN
          /\ (Done(q) /\ (q.threw # "none" \/ q.lookup = "threw")) =>
                (q.status = 500 /\ q.resp.details)
          /\ q.nEmailQuery <= 1 /\ q.nCodeQuery <= 1 /\ q.nCreate <= 1

\* C6, amended: a request whose duplicate check or page creation failed is
\* answered 500 with an error-detail payload, and no other request is
\* answered 500; a failed referrer lookup alone does not fail the request;
\* and each Notion call is issued at most once per request.
C6_FailureIs500ExceptLookup ==
    \A r \in NotionIds :
        LET q == nreq[r] IN
          /\ Done(q) =>
                /\ (q.threw \in {"check", "create"}) <=> (q.status = 500)
                /\ (q.status = 500) <=> q.resp.details
                /\ (q.lookup = "threw" /\ q.threw = "none") => q.status = 200
          /\ q.nEmailQuery <= 1 /\ q.nCodeQuery <= 1 /\ q.nCreate <= 1
          /\ q.threw = "check" => q.nCodeQuery = 0 /\ q.nCreate = 0

C6_Witness ==
    \E r, s \in NotionIds :
        /\ nreq[r].threw \in {"check", "create"} /\ nreq[r].status = 500
        /\ nreq[s].lookup = "threw" /\ nreq[s].status = 200

----------------------------------------------------------------------------
\* Claims about both endpoints

\* C3 as stated: a request without an email is answered 400 by either
\* endpoint and changes nothing outside it: no Notion call, no page, no email
\* sent, and no entry in the rate limiter's counter (requests whose limiter
\* call failed are left aside).
C3_MissingEmailIs400NoWrite ==
    /\ \A r \in NotionIds :
          (Done(nreq[r]) /\ nreq[r].body.email = Undefined) =>
              /\ nreq[r].status = 400
              /\ nreq[r].nEmailQuery = 0 /\ nreq[r].nCodeQuery = 0 /\ nreq[r].nCreate = 0
              /\ PagesBy(r) = {}
    /\ \A r \in MailIds :
          (Done(mreq[r]) /\ mreq[r].body.email = Undefined /\ mreq[r].limited # "threw") =>
              /\ mreq[r].status = 400
              /\ mreq[r].nSend = 0 /\ MailsBy(r) = {}
              /\ mreq[r].limited # "allow"

\* C3, amended: a request without an email (absent or empty) is answered 400
\* by the enrollment endpoint before any Notion call; the mail endpoint
\* consults the rate limiter first, which counts the request when it lets it
\* through, and answers 400 when the limiter allowed it, 429 when it denied
\* it and 500 when it failed; neither endpoint sends an email or creates a
\* page for such a request.
C3_MissingEmailNoSendNoPage ==
    /\ \A r \in NotionIds :
          (Done(nreq[r]) /\ ~Truthy(nreq[r].body.email)) =>
              /\ nreq[r].status = 400
              /\ nreq[r].nEmailQuery = 0 /\ nreq[r].nCodeQuery = 0 /\ nreq[r].nCreate = 0
              /\ PagesBy(r) = {}
    /\ \A r \in MailIds :
          (Done(mreq[r]) /\ ~Truthy(mreq[r].body.email)) =>
              /\ mreq[r].nLimit = 1
              /\ mreq[r].status = CASE mreq[r].limited = "allow" -> 400
                                    [] mreq[r].limited = "deny" -> 429
                                    [] OTHER -> 500
              /\ mreq[r].nSend = 0 /\ MailsBy(r) = {}
    /\ (nreq = <<>>) => (store = <<>>)

C3_Witness ==
    /\ \E r \in NotionIds : nreq[r].status = 400 /\ nreq[r].body.email = Undefined
    /\ \E r \in MailIds :
          /\ mreq[r].status \in {400, 429} /\ mreq[r].body.email = Undefined
          /\ mreq[r].nSend = 0

----------------------------------------------------------------------------
\* Claims about the Mail Dispatch Endpoint

\* the requests of r's caller that the limiter let through before r asked,
\* at most age seconds before it (strictly less when strict)
AllowedBefore(r, age, strict) ==
    {p \in MailIds :
        /\ p # r
        /\ mreq[p].caller = mreq[r].caller
        /\ mreq[p].limited = "allow"
        /\ mreq[p].ord < mreq[r].ord
        /\ IF strict THEN mreq[r].at - mreq[p].at < age
           ELSE mreq[r].at - mreq[p].at <= age}

\* C4: a request whose caller had 2 requests let through less than 60
\* seconds before it is answered 429 and no email is sent for it; a request
\* whose caller had fewer than 2 requests let through in the 60 seconds
\* before it is let through, whatever other callers did; and 429 is answered
\* exactly when the limiter denies.
C4_TwoPerMinutePerIp ==
    \A r \in MailIds :
        LET q == mreq[r] IN
          /\ (q.limited \in {"allow", "deny"}
                /\ Cardinality(AllowedBefore(r, Window, TRUE)) >= RateLimit) =>
                (q.status = 429 /\ q.nSend = 0 /\ MailsBy(r) = {})
          /\ (q.limited \in {"allow", "deny"}
                /\ Cardinality(AllowedBefore(r, Window, FALSE)) < RateLimit) =>
                (q.limited = "allow" /\ q.status # 429)
          /\ Done(q) => ((q.status = 429) <=> (q.limited = "deny"))

C4_Witness ==
    \E r \in MailIds :
        /\ mreq[r].status = 429
        /\ Cardinality(AllowedBefore(r, Window, TRUE)) = RateLimit
        /\ \E p \in AllowedBefore(r, Window, TRUE) : mreq[p].at < mreq[r].at

----------------------------------------------------------------------------
\* Claims about the Waitlist Form

Attempts == 1..Len(form.attempts)
FormMailReqs == {r \in MailIds : mreq[r].src = "form"}
FormNotionReqs == {r \in NotionIds : nreq[r].src = "form"}

\* the inputs of the local@domain.tld shape
ShapedEmails == {EmailA, EmailB}

\* C7: a submit on step 1 issues no call; with an email that is empty or not
\* of the local@domain.tld shape it changes nothing of the form but the
\* message shown (step stays 1, loading and success stay false), and with an
\* email of that shape it moves the form to step 2 and changes nothing else.
C7_Step1SubmitIssuesNoCall ==
    [][ (form.step = 1 /\ FormSubmit) =>
            /\ mreq' = mreq /\ nreq' = nreq
            /\ IF form.email \in ShapedEmails
               THEN form' = [form EXCEPT !.step = 2]
               ELSE /\ form' = [form EXCEPT !.toast = "invalid"]
                    /\ form'.step = 1 /\ ~form'.loading /\ ~form'.success ]_vars

C7_Witness ==
    /\ form.step = 2 /\ form.email \in ShapedEmails
    /\ form.toast = "invalid"
    /\ mreq = <<>> /\ nreq = <<>>

\* C8: in every attempt the enrollment call is issued only after the mail
\* call was answered with a 2xx status; an attempt whose mail call failed
\* (network error or another status) issues no enrollment call and does not
\* end in success; the form issues no enrollment call outside an attempt.
C8_EnrollOnlyAfterMailOk ==
    /\ \A k \in Attempts :
          LET a == form.attempts[k] IN
            /\ a.notionReq # 0 =>
                  /\ a.mailSeen \in 200..299
                  /\ Done(mreq[a.mailReq]) /\ mreq[a.mailReq].status = a.mailSeen
                  /\ mreq[a.mailReq].body = nreq[a.notionReq].body
            /\ (a.mailSeen # 0 /\ a.mailSeen \notin 200..299) =>
                  (a.notionReq = 0 /\ a.settled /\ ~a.ok)
    /\ FormNotionReqs = {form.attempts[k].notionReq : k \in Attempts} \ {0}
    /\ form.success => (Attempts # {} /\ Cur.ok)

C8_Witness ==
    \E k, l \in Attempts :
        /\ form.attempts[k].mailSeen \in {NetworkError, 429, 500}
        /\ form.attempts[k].settled
        /\ form.attempts[l].mailSeen = 200
        /\ form.attempts[l].notionReq # 0

\* the calls of the form that have not settled
Outstanding ==
    {<<"mail", form.attempts[k].mailReq>> :
        k \in {j \in Attempts : form.attempts[j].mailSeen = 0}}
    \cup
    {<<"notion", form.attempts[k].notionReq>> :
        k \in {j \in Attempts : form.attempts[j].notionReq # 0
                                  /\ form.attempts[j].notionSeen = 0}}

\* C9: an attempt starts only when every earlier attempt has settled; each
\* attempt issues one mail call and at most one enrollment call; and at most
\* one call of the form is outstanding at any time, one exactly while an
\* attempt is in flight.
C9_OneAttemptInFlight ==
    /\ \A k \in Attempts : k < Len(form.attempts) => form.attempts[k].settled
    /\ Cardinality(FormMailReqs) = Len(form.attempts)
    /\ \A k, l \in Attempts :
          k # l => /\ form.attempts[k].mailReq # form.attempts[l].mailReq
                   /\ (form.attempts[k].notionReq # 0 =>
                          form.attempts[k].notionReq # form.attempts[l].notionReq)
    /\ Cardinality(FormNotionReqs) <= Len(form.attempts)
    /\ Cardinality(Outstanding) <= 1
    /\ (Attempts # {} /\ ~Cur.settled) <=> (Cardinality(Outstanding) = 1)

C9_Witness ==
    /\ Len(form.attempts) = 2
    /\ form.attempts[1].settled /\ form.attempts[1].notionReq # 0
    /\ ~form.attempts[2].settled /\ form.attempts[2].notionReq # 0
    /\ Outstanding = {<<"notion", form.attempts[2].notionReq>>}

\* C10: loading is true exactly while an attempt is in flight, so it is set
\* when an attempt starts and cleared when it settles on any path; and, the
\* calls of the form settling, loading = true leads to loading = false.
C10_LoadingClears ==
    /\ [](form.loading <=> (Attempts # {} /\ ~Cur.settled))
    /\ (form.loading ~> ~form.loading)

C10_Witness ==
    /\ ~form.loading
    /\ \E k, l \in Attempts :
          /\ form.attempts[k].settled /\ form.attempts[k].notionSeen = 409
          /\ form.attempts[l].settled /\ form.attempts[l].ok

\* an attempt settles in this step
Settling == form.pc # "idle" /\ form'.pc = "idle"

\* what the attempt that settles has seen of its two calls
Seen == form'.attempts[Len(form'.attempts)]

\* C11: an attempt that settles on a failure (a network error or a status
\* outside 2xx from either call) shows the already-on-the-waitlist message on
\* an enrollment 409, the too-many-attempts message on a 429, the generic
\* message otherwise (an enrollment 429, which this endpoint never answers,
\* included); success stays false, the form stays on step 2 with the email
\* and the name as entered, and shareLink stays empty.
C11_FailureMessages ==
    /\ [][ (Settling /\ ( Seen.mailSeen \notin 200..299
                          \/ Seen.notionSeen \notin 200..299 )) =>
              /\ form'.toast = IF Seen.notionSeen = 409 THEN "already"
                               ELSE IF 429 \in {Seen.mailSeen, Seen.notionSeen}
                                    THEN "rate" ELSE "generic"
              /\ ~form'.success /\ ~form.success
              /\ form'.step = 2
              /\ form'.email = form.email /\ form'.email = form.payload.email
              /\ form'.name = form.name
              /\ form'.shareLink = <<>> ]_vars
    /\ [](\A status \in {400, 429, 500} :
            CatchToast(NotionError(status)) = IF status = 429 THEN "rate" ELSE "generic")

C11_Witness ==
    /\ Attempts # {} /\ Cur.settled /\ Cur.mailSeen = 429
    /\ form.toast = "rate"
    /\ form.step = 2 /\ form.email \in ShapedEmails /\ form.name = NameN
    /\ ~form.success /\ form.shareLink = <<>>

\* C12: an attempt whose enrollment call is answered 2xx settles with success
\* true, loading false, email and name empty and shareLink = origin, "/?ref="
\* and the code of that response; success turns true in no other step, and
\* while it is true the form keeps that state.
C12_SuccessState ==
    /\ [][ (Settling /\ Seen.notionSeen \in 200..299) =>
              LET q == nreq[Seen.notionReq] IN
                /\ q.status = Seen.notionSeen /\ q.src = "form"
                /\ form'.success /\ ~form'.loading
                /\ form'.email = <<>> /\ form'.name = <<>>
                /\ Len(q.resp.code) = DefaultCodeLength
                /\ form'.shareLink = Origin \o <<"/", "?", "r", "e", "f", "=">> \o q.resp.code ]_vars
    /\ [][ (~form.success /\ form'.success) =>
              (Settling /\ form.pc = "notion" /\ Seen.notionSeen \in 200..299) ]_vars
    /\ [](form.success =>
              /\ ~form.loading /\ form.email = <<>> /\ form.name = <<>>
              /\ Cur.settled /\ Cur.notionSeen \in 200..299
              /\ form.shareLink = Origin \o <<"/", "?", "r", "e", "f", "=">>
                                    \o nreq[Cur.notionReq].resp.code)

C12_Witness ==
    /\ form.success /\ ~form.loading
    /\ form.email = <<>> /\ form.name = <<>>
    /\ Cur.notionSeen = 200
    /\ form.shareLink = Origin \o <<"/", "?", "r", "e", "f", "=">> \o CodeA
    /\ \E p \in 1..Len(store) : store[p].code = CodeA /\ store[p].name = NameN

\* C13: the reset, available while success is true, is the only step that
\* turns success false; it leaves step = 1, email and name empty, success
\* false, shareLink empty and loading false as it was, issues no call, and
\* the form is then as at the start: a submit validates the email on step 1.
C13_ResetRestoresInitial ==
    /\ [][ (form.success /\ ~form'.success) =>
              /\ ~form.loading /\ ~form'.loading
              /\ form'.step = FormInit.step
              /\ form'.email = FormInit.email /\ form'.name = FormInit.name
              /\ form'.shareLink = FormInit.shareLink
              /\ form'.pc = FormInit.pc
              /\ mreq' = mreq /\ nreq' = nreq /\ store' = store ]_vars
    /\ [][ resetForm => (form.success /\ ~form'.success) ]_vars

C13_Witness ==
    /\ Attempts # {} /\ Cur.ok
    /\ ~form.success /\ ~form.loading
    /\ form.step = 1 /\ form.email = <<>> /\ form.name = <<>> /\ form.shareLink = <<>>

----------------------------------------------------------------------------
\* Claims about the referral code

\* the uppercase letters and the digits, less the four that are easily confused
UpperLetters ==
    { "A", "B", "C", "D", "E", "F", "G", "H", "I", "J", "K", "L", "M",
      "N", "O", "P", "Q", "R", "S", "T", "U", "V", "W", "X", "Y", "Z" }
DecimalDigits == { "0", "1", "2", "3", "4", "5", "6", "7", "8", "9" }
Unambiguous == (UpperLetters \cup DecimalDigits) \ { "I", "O", "0", "1" }

\* the length asked of the last call
AskedLength == IF gen.given THEN gen.length ELSE 8

\* C14 as stated: the result has `length` characters (8 without a length),
\* each of the alphabet of uppercase letters and digits without I, O, 0 and
\* 1, and that alphabet has 33 symbols.
C14_Alphabet33 ==
    gen.called =>
        /\ Len(gen.code) = AskedLength
        /\ \A i \in 1..Len(gen.code) : gen.code[i] \in Unambiguous
        /\ Cardinality(Unambiguous) = 33
        /\ Len(REFERRAL_CODE_CHARSET) = 33

\* C14: the result has `length` characters for every integer length >= 0 (8
\* without a length), each of the alphabet of uppercase letters and digits
\* without I, O, 0 and 1, which has 32 symbols, each listed once.
C14_LengthAndAlphabet32 ==
    gen.called =>
        /\ Len(gen.code) = AskedLength
        /\ \A i \in 1..Len(gen.code) : gen.code[i] \in Unambiguous
        /\ Cardinality(Unambiguous) = 32
        /\ Len(REFERRAL_CODE_CHARSET) = 32
        /\ {REFERRAL_CODE_CHARSET[k] : k \in 1..Len(REFERRAL_CODE_CHARSET)} = Unambiguous

C14_Witness ==
    /\ gen.called /\ gen.given /\ gen.length = MaxCodeLen
    /\ gen.code[1] = "A" /\ gen.code[MaxCodeLen] = "9"

\* C15: no two pages of the database hold the same referral code.
C15_CodesUnique ==
    \A p, q \in 1..Len(store) : p # q => store[p].code # store[q].code

\* the part of an address before its first "@"
LocalPart(email) ==
    IF email = EmailA THEN <<"a">> ELSE IF email = EmailB THEN <<"c">> ELSE <<>>

\* C17: a request answered 200 created exactly one page; its email is the
\* request's, its name the request's firstname when one is given (and not
\* empty) and else the email's part before the first "@", its code the code
\* of the response, its referred-by text the request's referredBy when
\* supplied and else empty, and the response's notionId is the page's id.
C17_RecordFromRequest ==
    \A r \in NotionIds :
        (Done(nreq[r]) /\ nreq[r].status = 200) =>
            /\ Cardinality(PagesBy(r)) = 1
            /\ \A i \in PagesBy(r) :
                  LET page == store[i]
                      body == nreq[r].body
                  IN  /\ page.email = body.email
                      /\ page.name = IF body.firstname \notin {Undefined, <<>>}
                                     THEN body.firstname ELSE LocalPart(body.email)
                      /\ page.name # <<>>
                      /\ page.code = nreq[r].resp.code
                      /\ Len(page.code) = 8
                      /\ page.referredBy = IF body.referredBy \notin {Undefined, <<>>}
                                           THEN body.referredBy ELSE <<>>
                      /\ nreq[r].resp.notionId = page.id
                      /\ page.id = i

C17_Witness ==
    \E i, j \in 1..Len(store) :
        /\ store[i].email = EmailA /\ store[i].name = <<"a">>
        /\ store[i].referredBy = BogusCode
        /\ store[j].email = EmailB /\ store[j].name = NameN
        /\ store[j].referredBy = <<>>
        /\ nreq[store[i].by].status = 200 /\ nreq[store[j].by].status = 200

----------------------------------------------------------------------------
\* Claims about mail delivery

\* C16: a request is answered 200 exactly when the provider returned data
\* without an error; the provider is called at most once for a request, and
\* only when the limiter let the request through and the body has an email;
\* an error, an empty answer or a throw of the provider, and a throw of the
\* limiter, give 500; a request answered 429 or 400 never reached the
\* provider; an email is in the outbox exactly for the requests answered 200.
C16_SingleDeliveryAttempt ==
    \A r \in MailIds :
        LET q == mreq[r] IN
          /\ q.nSend <= 1 /\ q.nLimit <= 1
          /\ Cardinality(MailsBy(r)) = IF q.status = 200 THEN 1 ELSE 0
          /\ q.nSend = 1 => (q.limited = "allow" /\ q.body.email \notin {Undefined, <<>>})
          /\ Done(q) =>
                /\ (q.status = 200) <=> (q.nSend = 1 /\ q.provider = "data")
                /\ (q.nSend = 1 /\ q.provider \in {"error", "empty", "threw"}) => q.status = 500
                /\ q.limited = "threw" => q.status = 500
                /\ q.status \in {429, 400} => (q.nSend = 0 /\ q.provider = "none")
                /\ q.status \in {200, 400, 429, 500}

C16_Witness ==
    \E r, p, d \in MailIds :
        /\ mreq[r].status = 200 /\ mreq[r].provider = "data" /\ MailsBy(r) # {}
        /\ mreq[p].status = 500 /\ mreq[p].provider = "empty" /\ mreq[p].nSend = 1
        /\ mreq[d].status = 429 /\ mreq[d].nSend = 0

\* C18: the email sent for a step-2 submission of the form greets the name
\* the form supplied for that signup: the name typed, or the part of the
\* email before "@" when the name field was empty.
C18_EmailGreetsFormName ==
    \A i \in 1..Len(outbox) :
        LET q == mreq[outbox[i].by] IN
          q.src = "form" =>
              /\ outbox[i].userFirstname = q.body.firstname
              /\ outbox[i].userFirstname \in {NameN, LocalPart(q.body.email)}

\* C19: every call of the form carries an email that is not empty and passes
\* the step-1 validation, and the form is on step 2 with success false only
\* while the stored email does.
C19_CallsCarryValidEmail ==
    /\ \A r \in FormMailReqs : mreq[r].body.email \in ShapedEmails
    /\ \A r \in FormNotionReqs : nreq[r].body.email \in ShapedEmails
    /\ (form.step = 2 /\ ~form.success) => form.email \in ShapedEmails
    /\ form.loading => form.payload.email = form.email

C19_Witness ==
    /\ Len(form.attempts) = 2
    /\ mreq[form.attempts[1].mailReq].body.email = EmailA
    /\ form.attempts[1].settled /\ ~form.attempts[1].ok
    /\ mreq[form.attempts[2].mailReq].body.email = EmailB
    /\ form.attempts[2].notionReq # 0
    /\ nreq[form.attempts[2].notionReq].body.email = EmailB
    /\ form.step = 2 /\ ~form.success /\ form.email = EmailB

====
